---- MODULE Spec2Model ----
(***************************************************************************)
(* Model of django_gcloud_storage/__init__.py: the path resolver           *)
(* safe_join, the buffered remote file GCloudFile and the storage facade   *)
(* DjangoGCloudStorage.                                                    *)
(*                                                                         *)
(* A string is a sequence of one-character strings.  The alphabet is       *)
(* "/", ".", "a", "b": no character with a meaning of its own to urlparse  *)
(* (":", "?", "#", ";") occurs, so urljoin's scheme, netloc, params, query *)
(* and fragment are empty and only its path algorithm is modelled.         *)
(***************************************************************************)
EXTENDS Integers, Sequences, FiniteSets, TLC

\* ------------------------------------------------------------------ bounds

\* Most "/"-separated segments of a path given to safe_join directly.
MaxJoinSegs == 3

\* Most objects the bucket holds.
MaxObjects == 2

\* Most write calls a caller makes on one GCloudFile.
MaxWrites == 2

\* The furthest offset a caller seeks to, and the most bytes of one read.
MaxSeek == 2

\* Most upload calls made for one GCloudFile: a close() whose upload failed
\* may be called again without end.
MaxUploadCalls == 2

\* ------------------------------------------------------------------- state

VARIABLES
    urlparse,   \* which urljoin the interpreter provides: "rfc3986" or "legacy"
    base,       \* safe_join's first argument, as the caller gave it
    path,       \* safe_join's second argument, as the caller gave it
    joined,     \* safe_join's outcome, NotCalled before the call
    store,      \* the names of the blobs the bucket holds
    rec,        \* the last call of a DjangoGCloudStorage method
    remote,     \* the content of the blob a GCloudFile stands for, or Absent
    fstate,     \* "none" (no file yet), "open" or "closed" (self._tmpfile)
    dirty,      \* self._dirty
    buf,        \* the bytes of self._tmpfile
    pos,        \* the cursor of self._tmpfile
    uploaded,   \* the body of the last upload that succeeded
    last,       \* the last call on the file: its name, the exception raised
    hist        \* what happened while the file was open (see NoHistory)

joinVars == <<base, path, joined>>

storageVars == <<store, rec>>

fileVars == <<remote, fstate, dirty, buf, pos, uploaded, last, hist>>

\* What a call on a GCloudFile leaves alone.
notFileVars == <<urlparse, base, path, joined, store, rec>>

vars == <<urlparse, joinVars, storageVars, fileVars>>

\* ----------------------------------------------------------------- strings

SLASH == <<"/">>

\* The segments the paths given to safe_join directly are built from: empty
\* (a leading, doubled or trailing slash), ".", ".." and an ordinary name.
Segs == { <<>>, <<".">>, <<".", ".">>, <<"a">> }

\* str.lstrip("/")
RECURSIVE lstrip(_)
lstrip(s) ==
    IF s # <<>> /\ Head(s) = "/" THEN lstrip(Tail(s)) ELSE s

\* str.rstrip("/")
RECURSIVE rstrip(_)
rstrip(s) ==
    IF s # <<>> /\ s[Len(s)] = "/" THEN rstrip(SubSeq(s, 1, Len(s) - 1)) ELSE s

\* str.startswith(prefix)
startswith(s, prefix) ==
    /\ Len(prefix) <= Len(s)
    /\ SubSeq(s, 1, Len(prefix)) = prefix

\* str.split("/"): the segments between slashes; "" splits to [""].
RECURSIVE split(_)
split(s) ==
    IF \A i \in 1..Len(s) : s[i] # "/"
    THEN <<s>>
    ELSE LET i == CHOOSE k \in 1..Len(s) :
                      s[k] = "/" /\ \A j \in 1..(k - 1) : s[j] # "/"
         IN  <<SubSeq(s, 1, i - 1)>> \o split(SubSeq(s, i + 1, Len(s)))

\* "/".join(segments)
RECURSIVE join(_)
join(segments) ==
    IF segments = <<>> THEN <<>>
    ELSE IF Len(segments) = 1 THEN segments[1]
    ELSE segments[1] \o SLASH \o join(Tail(segments))

\* re.sub("//+", "/", s): every run of slashes becomes one slash.
RECURSIVE collapse_slashes(_)
collapse_slashes(s) ==
    IF Len(s) < 2 THEN s
    ELSE IF s[1] = "/" /\ s[2] = "/" THEN collapse_slashes(Tail(s))
    ELSE <<s[1]>> \o collapse_slashes(Tail(s))

\* filter(None, segments): the non-empty segments, in order.
RECURSIVE filter_nonempty(_)
filter_nonempty(segments) ==
    IF segments = <<>> THEN <<>>
    ELSE IF Head(segments) = <<>> THEN filter_nonempty(Tail(segments))
    ELSE <<Head(segments)>> \o filter_nonempty(Tail(segments))

\* The code point order of the alphabet's characters.
ord(c) == CASE c = "." -> 46 [] c = "/" -> 47 [] c = "a" -> 97 [] c = "b" -> 98

\* s < t as Python compares strings.
RECURSIVE str_less(_, _)
str_less(s, t) ==
    IF t = <<>> THEN FALSE
    ELSE IF s = <<>> THEN TRUE
    ELSE IF Head(s) # Head(t) THEN ord(Head(s)) < ord(Head(t))
    ELSE str_less(Tail(s), Tail(t))

\* list.sort() of a list of distinct strings.
RECURSIVE sorted(_)
sorted(strings) ==
    IF strings = {} THEN <<>>
    ELSE LET least == CHOOSE s \in strings :
                          \A t \in strings \ {s} : str_less(s, t)
         IN  <<least>> \o sorted(strings \ {least})

\* The names of 1..n segments joined by "/" (the empty name included).
NamesUpTo(n) ==
    { join(segs) : segs \in UNION { [1..k -> Segs] : k \in 1..n } }

\* ----------------------------------------------------------------- urljoin

\* The loop of urljoin (Python 3.5 and later) over the segments: ".." pops
\* the last resolved segment (and is ignored when there is none), "." is
\* skipped, anything else is appended.
RECURSIVE resolve_dots(_, _)
resolve_dots(segments, resolved_path) ==
    IF segments = <<>> THEN resolved_path
    ELSE LET seg == Head(segments) IN
         IF seg = <<".", ".">>
         THEN resolve_dots(Tail(segments),
                  IF resolved_path = <<>> THEN <<>>
                  ELSE SubSeq(resolved_path, 1, Len(resolved_path) - 1))
         ELSE IF seg = <<".">>
         THEN resolve_dots(Tail(segments), resolved_path)
         ELSE resolve_dots(Tail(segments), Append(resolved_path, seg))

\* urllib.parse.urljoin of Python 3.5 and later (RFC 3986), for a base and
\* a url that are paths only.
urljoin_rfc3986(b, url) ==
    IF b = <<>> THEN url
    ELSE IF url = <<>> THEN b
    ELSE LET bparts == split(b)
             base_parts == IF bparts[Len(bparts)] # <<>>
                           THEN SubSeq(bparts, 1, Len(bparts) - 1)
                           ELSE bparts
             raw == base_parts \o split(url)
             segments ==
                 IF url[1] = "/" THEN split(url)
                 ELSE IF Len(raw) > 2
                 THEN <<raw[1]>>
                      \o filter_nonempty(SubSeq(raw, 2, Len(raw) - 1))
                      \o <<raw[Len(raw)]>>
                 ELSE raw
             resolved == resolve_dots(segments, <<>>)
             resolved_path ==
                 IF segments[Len(segments)] \in { <<".">>, <<".", ".">> }
                 THEN Append(resolved, <<>>)
                 ELSE resolved
         IN  IF join(resolved_path) = <<>> THEN SLASH ELSE join(resolved_path)

\* "while '.' in segments: segments.remove('.')"
RECURSIVE remove_dots(_)
remove_dots(segments) ==
    IF segments = <<>> THEN <<>>
    ELSE IF Head(segments) = <<".">> THEN remove_dots(Tail(segments))
    ELSE <<Head(segments)>> \o remove_dots(Tail(segments))

\* The "while 1" loop of the older urljoin: the first ".." that is neither
\* the last segment nor preceded by "" or ".." is deleted together with the
\* segment before it, until there is none.
RECURSIVE collapse_dotdot(_)
collapse_dotdot(segments) ==
    LET hits == { i \in 2..(Len(segments) - 1) :
                      /\ segments[i] = <<".", ".">>
                      /\ segments[i - 1] \notin { <<>>, <<".", ".">> } }
    IN  IF hits = {} THEN segments
        ELSE LET i == CHOOSE k \in hits : \A j \in hits : k <= j
             IN  collapse_dotdot(SubSeq(segments, 1, i - 2)
                                 \o SubSeq(segments, i + 1, Len(segments)))

\* urlparse.urljoin of Python 2 (and urllib.parse.urljoin before Python
\* 3.5), for a base and a url that are paths only.
urljoin_legacy(b, url) ==
    IF b = <<>> THEN url
    ELSE IF url = <<>> THEN b
    ELSE IF url[1] = "/" THEN url
    ELSE LET bparts == split(b)
             raw == SubSeq(bparts, 1, Len(bparts) - 1) \o split(url)
             undotted ==
                 remove_dots(IF raw[Len(raw)] = <<".">>
                             THEN [raw EXCEPT ![Len(raw)] = <<>>]
                             ELSE raw)
             collapsed == collapse_dotdot(undotted)
             segments ==
                 IF collapsed = << <<>>, <<".", ".">> >>
                 THEN << <<>>, <<>> >>
                 ELSE IF /\ Len(collapsed) >= 2
                         /\ collapsed[Len(collapsed)] = <<".", ".">>
                 THEN Append(SubSeq(collapsed, 1, Len(collapsed) - 2), <<>>)
                 ELSE collapsed
         IN  join(segments)

\* The urljoin algorithms an interpreter may provide.
Interpreters == {"rfc3986", "legacy"}

\* urlparse.urljoin as imported: urllib.parse's, or Python 2's urlparse's.
urljoin(interpreter, b, url) ==
    IF interpreter = "rfc3986" THEN urljoin_rfc3986(b, url)
    ELSE urljoin_legacy(b, url)

\* --------------------------------------------------------------- safe_join

\* "/" + base.lstrip("/").rstrip("/") + "/", and "/" when that is "//".
normalize_base(b) ==
    LET wrapped == SLASH \o rstrip(lstrip(b)) \o SLASH
    IN  IF wrapped = <<"/", "/">> THEN SLASH ELSE wrapped

\* safe_join without its test.
is_contained_unchecked(resolved_url, b) == TRUE

\* The containment test of safe_join: resolved_url.startswith(base).
is_contained(resolved_url, b) == startswith(resolved_url, b)

\* safe_join(base, path) under an interpreter: raised tells whether
\* SuspiciousFileOperation was raised; value is the resolved url (returned,
\* or named in the error) and root the normalized base it was tested
\* against.
safe_join(interpreter, b, p) ==
    LET nbase == normalize_base(b)
        resolved_url == collapse_slashes(urljoin(interpreter, nbase, lstrip(p)))
    IN  [ raised |-> ~is_contained(resolved_url, nbase),
          value  |-> resolved_url,
          root   |-> nbase ]

\* prepare_name: smart_str(name, encoding='utf-8') keeps the characters of
\* the alphabet as they are.
prepare_name(name) == name

\* ------------------------------------------------------- DjangoGCloudStorage

\* self.bucket_subdir = ''
bucket_subdir == <<>>

\* The bases safe_join is called with directly.
Roots ==
    { <<>>, <<"a">>, <<"/", "a", "/">>, <<"a", "/", "b">>, <<"b", "/">>,
      <<".", ".">>, <<"a", "/", "/", "b">>, <<"/">> }

\* The names the storage's methods are called with.
StorageNames ==
    { <<>>, <<"a">>, <<"b">>, <<"a", "/">>, <<"a", "/", "a">>,
      <<"a", "/", "b">>, <<"a", "/", "/", "b">>,
      <<".", ".">>, <<".", ".", "/", "a">> }

NotCalled == [ raised |-> FALSE, value |-> <<"?">>, root |-> <<"?">> ]

NoCall == [ op |-> "none", calls |-> <<>>, found |-> FALSE,
            after_delete |-> FALSE, raised |-> "", value |-> "None" ]

\* A call of the gcloud client made on the bucket or on one of its blobs.
StoreCall(api, key) == [ api |-> api, key |-> key ]

\* The record of a method call: the bucket calls it made, whether the blob
\* it looked for was there, the exception it raised ("" for none) and the
\* value it returned.  after_delete tells that the call before it was
\* delete, with the same name.
Called(op, name, calls, found, raised, value) ==
    [ op |-> op, calls |-> calls, found |-> found,
      after_delete |-> (rec.op = "delete" /\ name = path),
      raised |-> raised, value |-> value ]

\* safe_join(self.bucket_subdir, name) for the names the methods are
\* called with, computed once per interpreter.
resolved_names ==
    [ interpreter \in Interpreters, name \in StorageNames |->
          safe_join(interpreter, bucket_subdir, name) ]

\* The first lines of every method: name = safe_join(self.bucket_subdir,
\* name); name = prepare_name(name).
Resolve(name) ==
    /\ base' = bucket_subdir
    /\ path' = name
    /\ joined' = resolved_names[urlparse, name]

\* A method whose safe_join raised: the exception leaves the method before
\* any call on the bucket.
Rejected(op, name) ==
    /\ joined'.raised
    /\ rec' = Called(op, name, <<>>, FALSE, "SuspiciousFileOperation", "None")
    /\ UNCHANGED store

\* _save(name, content): bucket.blob(name).upload_from_file(content)
save(name) ==
    /\ Resolve(name)
    /\ \/ Rejected("_save", name)
       \/ LET key == prepare_name(joined'.value) IN
          /\ ~joined'.raised
          /\ key \in store \/ Cardinality(store) < MaxObjects
          /\ store' = store \cup {key}
          /\ rec' = Called("_save", name,
                           <<StoreCall("upload_from_file", key)>>,
                           key \in store, "", key)

\* _open(name, mode): get_blob gives None for a missing blob, and
\* None.download_to_file raises AttributeError.
open(name) ==
    /\ Resolve(name)
    /\ \/ Rejected("_open", name)
       \/ LET key == prepare_name(joined'.value) IN
          /\ ~joined'.raised
          /\ UNCHANGED store
          /\ rec' = IF key \in store
                    THEN Called("_open", name,
                                <<StoreCall("get_blob", key),
                                  StoreCall("download_to_file", key)>>,
                                TRUE, "", "GCloudFile")
                    ELSE Called("_open", name,
                                <<StoreCall("get_blob", key)>>,
                                FALSE, "AttributeError", "None")

\* created_time(name): blob._properties is read without a test for None.
created_time(name) ==
    /\ Resolve(name)
    /\ \/ Rejected("created_time", name)
       \/ LET key == prepare_name(joined'.value) IN
          /\ ~joined'.raised
          /\ UNCHANGED store
          /\ rec' = IF key \in store
                    THEN Called("created_time", name,
                                <<StoreCall("get_blob", key)>>,
                                TRUE, "", "datetime")
                    ELSE Called("created_time", name,
                                <<StoreCall("get_blob", key)>>,
                                FALSE, "AttributeError", "None")

\* delete without its "except NotFound".
delete_raises_not_found(found) == IF found THEN "" ELSE "NotFound"

\* What delete raises after bucket.delete_blob(name): NotFound is caught.
delete_raises(found) == ""

\* delete(name)
delete(name) ==
    /\ Resolve(name)
    /\ \/ Rejected("delete", name)
       \/ LET key == prepare_name(joined'.value) IN
          /\ ~joined'.raised
          /\ store' = store \ {key}
          /\ rec' = Called("delete", name,
                           <<StoreCall("delete_blob", key)>>,
                           key \in store, delete_raises(key \in store),
                           "None")

\* exists(name): self.bucket.get_blob(name) is not None
exists(name) ==
    /\ Resolve(name)
    /\ \/ Rejected("exists", name)
       \/ LET key == prepare_name(joined'.value) IN
          /\ ~joined'.raised
          /\ UNCHANGED store
          /\ rec' = Called("exists", name, <<StoreCall("get_blob", key)>>,
                           key \in store, "",
                           IF key \in store THEN "True" ELSE "False")

\* size(name): blob.size if blob is not None else None
size(name) ==
    /\ Resolve(name)
    /\ \/ Rejected("size", name)
       \/ LET key == prepare_name(joined'.value) IN
          /\ ~joined'.raised
          /\ UNCHANGED store
          /\ rec' = Called("size", name, <<StoreCall("get_blob", key)>>,
                           key \in store, "",
                           IF key \in store THEN "int" ELSE "None")

\* modified_time(name): blob.updated if blob is not None else None
modified_time(name) ==
    /\ Resolve(name)
    /\ \/ Rejected("modified_time", name)
       \/ LET key == prepare_name(joined'.value) IN
          /\ ~joined'.raised
          /\ UNCHANGED store
          /\ rec' = Called("modified_time", name,
                           <<StoreCall("get_blob", key)>>,
                           key \in store, "",
                           IF key \in store THEN "datetime" ELSE "None")

\* url(name): get_blob(name).generate_signed_url(...), without a test for
\* None.
url(name) ==
    /\ Resolve(name)
    /\ \/ Rejected("url", name)
       \/ LET key == prepare_name(joined'.value) IN
          /\ ~joined'.raised
          /\ UNCHANGED store
          /\ rec' = IF key \in store
                    THEN Called("url", name, <<StoreCall("get_blob", key)>>,
                                TRUE, "", "signed_url")
                    ELSE Called("url", name, <<StoreCall("get_blob", key)>>,
                                FALSE, "AttributeError", "None")

\* remove_prefix(target, prefix)
remove_prefix(target, prefix) ==
    IF startswith(target, prefix)
    THEN SubSeq(target, Len(prefix) + 1, Len(target))
    ELSE target

\* Whether a string holds the delimiter.
has_slash(s) == \E i \in 1..Len(s) : s[i] = "/"

\* bucket.list_blobs(prefix, delimiter="/"): the blobs named prefix + rest
\* where rest holds no delimiter.
list_blobs(prefix) ==
    { k \in store :
          /\ startswith(k, prefix)
          /\ ~has_slash(SubSeq(k, Len(prefix) + 1, Len(k))) }

\* iterator.prefixes: for the other blobs under the prefix, their names cut
\* after the first delimiter that follows the prefix.
list_prefixes(prefix) ==
    { LET rest == SubSeq(k, Len(prefix) + 1, Len(k))
          cut == CHOOSE i \in 1..Len(rest) :
                     rest[i] = "/" /\ \A j \in 1..(i - 1) : rest[j] # "/"
      IN  SubSeq(k, 1, Len(prefix) + cut) :
      k \in { b \in store :
                 /\ startswith(b, prefix)
                 /\ has_slash(SubSeq(b, Len(prefix) + 1, Len(b))) } }

\* What listdir returns for the resolved path: (dirs, items), each sorted.
listing(prefix) ==
    << sorted({ rstrip(remove_prefix(p, prefix)) : p \in list_prefixes(prefix) }),
       sorted({ remove_prefix(k, prefix) : k \in list_blobs(prefix) }) >>

\* listdir(path)
listdir(name) ==
    /\ Resolve(name)
    /\ \/ Rejected("listdir", name)
       \/ LET key == prepare_name(joined'.value) IN
          /\ ~joined'.raised
          /\ UNCHANGED store
          /\ rec' = Called("listdir", name, <<StoreCall("list_blobs", key)>>,
                           list_blobs(key) # {} \/ list_prefixes(key) # {},
                           "", listing(key))

\* --------------------------------------------------------------- GCloudFile

\* No blob under the name.
Absent == <<-1>>

\* The byte sequences a caller writes in one call.
Chunks == { <<>>, <<1>>, <<1, 2>> }

\* The contents the blob may have before the file is made.
RemoteContents == { <<>>, <<2, 1>> }

\* What the model remembers of a file's open/close cycle, counted while the
\* file is open: the write calls made on it (by anyone, and by the caller
\* alone), the bytes given to them in call order, whether every write of at
\* least one byte was made with the cursor at the end of the buffer, the
\* calls of blob.upload_from_file and those that succeeded, whether the
\* last one found the cursor inside the buffer (neither at its start nor at
\* its end), and who made the file ("GCloudFile" for
\* the constructor alone, "_open").
NoHistory ==
    [ writes |-> 0, caller_writes |-> 0, written |-> <<>>, appended |-> TRUE,
      upload_calls |-> 0, uploads |-> 0, inside |-> FALSE, made_by |-> "" ]

NoFile ==
    /\ remote = Absent
    /\ fstate = "none"
    /\ dirty = FALSE
    /\ buf = <<>>
    /\ pos = 0
    /\ uploaded = Absent
    /\ last = [ op |-> "none", raised |-> "" ]
    /\ hist = NoHistory

\* n zero bytes: what a write past the end of the buffer leaves in the gap.
RECURSIVE zeros(_)
zeros(n) == IF n <= 0 THEN <<>> ELSE <<0>> \o zeros(n - 1)

\* self._tmpfile.write(content) with the cursor at offset cursor: the bytes
\* replace those at the cursor and extend the buffer; writing no byte
\* changes nothing.
write_at(buffer, cursor, content) ==
    IF content = <<>> THEN buffer
    ELSE SubSeq(buffer, 1, IF cursor < Len(buffer) THEN cursor ELSE Len(buffer))
         \o zeros(cursor - Len(buffer))
         \o content
         \o SubSeq(buffer, cursor + Len(content) + 1, Len(buffer))

\* write marking the file dirty only when it is given bytes.
dirty_after_bytes(content) == content # <<>>

\* write: self._dirty = True, whatever the content.
dirty_after_write(content) == TRUE

\* close uploading whether the file is dirty or not.
must_upload_always == TRUE

\* close: "if self._dirty".
must_upload == dirty

\* upload_from_file without rewind=True: the bytes from the cursor on.
upload_body_from_cursor(buffer, cursor) ==
    SubSeq(buffer, cursor + 1, Len(buffer))

\* What upload_from_file(self._tmpfile, rewind=True) sends: the file is
\* rewound, so the whole buffer, wherever the cursor was.
upload_body(buffer, cursor) == buffer

\* The history after a write call of the content with the cursor at offset
\* cursor of the buffer.
written_to(h, buffer, cursor, content, by_caller) ==
    [ h EXCEPT !.writes = @ + 1,
               !.caller_writes = IF by_caller THEN @ + 1 ELSE @,
               !.written = @ \o content,
               !.appended = @ /\ (content = <<>> \/ cursor = Len(buffer)) ]

\* GCloudFile(blob): a clean file over an empty SpooledTemporaryFile.
Construct ==
    /\ fstate = "none"
    /\ fstate' = "open"
    /\ dirty' = FALSE
    /\ buf' = <<>>
    /\ pos' = 0
    /\ last' = [ op |-> "GCloudFile", raised |-> "" ]
    /\ hist' = [ NoHistory EXCEPT !.made_by = "GCloudFile" ]
    /\ UNCHANGED <<remote, uploaded>>
    /\ UNCHANGED notFileVars

\* The end of _open for a name safe_join let through: blob =
\* get_blob(name); tmpfile = GCloudFile(blob); blob.download_to_file(tmpfile);
\* tmpfile.seek(0).  get_blob gives None for a missing blob and the download
\* raises AttributeError.  The download writes the content with
\* tmpfile.write, that is GCloudFile.write; for an empty blob the library
\* may call write with no bytes, or not call it.
OpenForRead ==
    /\ fstate = "none"
    /\ \/ /\ remote = Absent
          /\ last' = [ op |-> "_open", raised |-> "AttributeError" ]
          /\ UNCHANGED <<remote, fstate, dirty, buf, pos, uploaded, hist>>
       \/ /\ remote # Absent
          /\ last' = [ op |-> "_open", raised |-> "DownloadError" ]
          /\ UNCHANGED <<remote, fstate, dirty, buf, pos, uploaded, hist>>
       \/ /\ remote # Absent
          /\ \E calls_write \in BOOLEAN :
                /\ remote # <<>> => calls_write
                /\ dirty' = IF calls_write THEN dirty_after_write(remote)
                            ELSE FALSE
                /\ hist' = IF calls_write
                           THEN written_to(
                                    [ NoHistory EXCEPT !.made_by = "_open" ],
                                    <<>>, 0, remote, FALSE)
                           ELSE [ NoHistory EXCEPT !.made_by = "_open" ]
          /\ fstate' = "open"
          /\ buf' = write_at(<<>>, 0, remote)
          /\ pos' = 0
          /\ last' = [ op |-> "_open", raised |-> "" ]
          /\ UNCHANGED <<remote, uploaded>>
    /\ UNCHANGED notFileVars

\* write(content): self._dirty = True, then the write on the temporary
\* file, which raises ValueError once the file is closed.
Write ==
    /\ \E content \in Chunks :
          \/ /\ fstate = "open"
             /\ hist.caller_writes < MaxWrites
             /\ dirty' = dirty_after_write(content)
             /\ buf' = write_at(buf, pos, content)
             /\ pos' = pos + Len(content)
             /\ hist' = written_to(hist, buf, pos, content, TRUE)
             /\ last' = [ op |-> "write", raised |-> "" ]
             /\ UNCHANGED <<remote, fstate, uploaded>>
          \/ /\ fstate = "closed"
             /\ dirty' = dirty_after_write(content)
             /\ last' = [ op |-> "write", raised |-> "ValueError" ]
             /\ UNCHANGED <<remote, fstate, buf, pos, uploaded, hist>>
    /\ UNCHANGED notFileVars

\* read(n) through the File proxy: the cursor moves over the bytes read.
Read ==
    /\ \E n \in 1..MaxSeek :
          \/ /\ fstate = "open"
             /\ pos' = IF pos >= Len(buf) THEN pos
                       ELSE IF pos + n > Len(buf) THEN Len(buf) ELSE pos + n
             /\ last' = [ op |-> "read", raised |-> "" ]
             /\ UNCHANGED <<remote, fstate, dirty, buf, uploaded, hist>>
          \/ /\ fstate = "closed"
             /\ last' = [ op |-> "read", raised |-> "ValueError" ]
             /\ UNCHANGED <<remote, fstate, dirty, buf, pos, uploaded, hist>>
    /\ UNCHANGED notFileVars

\* seek(offset) through the File proxy.
Seek ==
    /\ \E offset \in 0..MaxSeek :
          \/ /\ fstate = "open"
             /\ pos' = offset
             /\ last' = [ op |-> "seek", raised |-> "" ]
             /\ UNCHANGED <<remote, fstate, dirty, buf, uploaded, hist>>
          \/ /\ fstate = "closed"
             /\ last' = [ op |-> "seek", raised |-> "ValueError" ]
             /\ UNCHANGED <<remote, fstate, dirty, buf, pos, uploaded, hist>>
    /\ UNCHANGED notFileVars

\* close() of a clean file: no upload; the temporary file is closed.
CloseClean ==
    /\ fstate # "none"
    /\ ~must_upload
    /\ fstate' = "closed"
    /\ last' = [ op |-> "close", raised |-> "" ]
    /\ UNCHANGED <<remote, dirty, buf, pos, uploaded, hist>>
    /\ UNCHANGED notFileVars

\* close() of a dirty file whose upload succeeds: the blob gets the body,
\* self._dirty = False, and the temporary file is closed.
CloseUploaded ==
    /\ fstate = "open"
    /\ must_upload
    /\ uploaded' = upload_body(buf, pos)
    /\ remote' = upload_body(buf, pos)
    /\ dirty' = FALSE
    /\ fstate' = "closed"
    /\ pos' = Len(buf)
    /\ last' = [ op |-> "close", raised |-> "" ]
    /\ hist' = [ hist EXCEPT !.upload_calls = @ + 1, !.uploads = @ + 1,
                             !.inside = (0 < pos /\ pos < Len(buf)) ]
    /\ UNCHANGED buf
    /\ UNCHANGED notFileVars

\* close() clearing the flag and closing the temporary file although the
\* upload raised.
CloseUploadFailedAndClosed ==
    /\ fstate = "open"
    /\ must_upload
    /\ hist.upload_calls < MaxUploadCalls
    /\ remote' \in { remote, upload_body(buf, pos) }
    /\ pos' \in { 0, Len(buf) }
    /\ dirty' = FALSE
    /\ fstate' = "closed"
    /\ last' = [ op |-> "close", raised |-> "UploadError" ]
    /\ hist' = [ hist EXCEPT !.upload_calls = @ + 1,
                             !.inside = (0 < pos /\ pos < Len(buf)) ]
    /\ UNCHANGED <<buf, uploaded>>
    /\ UNCHANGED notFileVars

\* close() of a dirty file whose upload raises: the exception leaves close
\* before "self._dirty = False" and before the temporary file is closed.
\* The blob may or may not have been replaced when the error came, and the
\* cursor is where the upload left it.
CloseUploadFailed ==
    /\ fstate = "open"
    /\ must_upload
    /\ hist.upload_calls < MaxUploadCalls
    /\ remote' \in { remote, upload_body(buf, pos) }
    /\ pos' \in { 0, Len(buf) }
    /\ last' = [ op |-> "close", raised |-> "UploadError" ]
    /\ hist' = [ hist EXCEPT !.upload_calls = @ + 1,
                             !.inside = (0 < pos /\ pos < Len(buf)) ]
    /\ UNCHANGED <<fstate, dirty, buf, uploaded>>
    /\ UNCHANGED notFileVars

\* close() of a closed file that a write made dirty: upload_from_file
\* rewinds the closed temporary file, which raises ValueError.
CloseAgainDirty ==
    /\ fstate = "closed"
    /\ must_upload
    /\ last' = [ op |-> "close", raised |-> "ValueError" ]
    /\ UNCHANGED <<remote, fstate, dirty, buf, pos, uploaded, hist>>
    /\ UNCHANGED notFileVars

\* A blob with any content, or none, and no file yet.
InitFile ==
    /\ urlparse = "rfc3986"
    /\ base = <<>>
    /\ path = <<>>
    /\ joined = NotCalled
    /\ store = {}
    /\ rec = NoCall
    /\ remote \in RemoteContents \cup {Absent}
    /\ fstate = "none"
    /\ dirty = FALSE
    /\ buf = <<>>
    /\ pos = 0
    /\ uploaded = Absent
    /\ last = [ op |-> "none", raised |-> "" ]
    /\ hist = NoHistory

NextFile ==
    \/ Construct
    \/ OpenForRead
    \/ Write
    \/ Read
    \/ Seek
    \/ CloseClean
    \/ CloseUploaded
    \/ CloseUploadFailed
    \/ CloseAgainDirty

SpecFile == InitFile /\ [][NextFile]_vars

\* ------------------------------------------------------- the module's calls

\* A direct call safe_join(base, path) of the module's function.
SafeJoin ==
    /\ joined = NotCalled
    /\ joined' = safe_join(urlparse, base, path)
    /\ UNCHANGED <<urlparse, base, path, storageVars, fileVars>>

Save ==
    \E name \in StorageNames :
        save(name) /\ UNCHANGED <<urlparse, fileVars>>
Open ==
    \E name \in StorageNames :
        open(name) /\ UNCHANGED <<urlparse, fileVars>>
CreatedTime ==
    \E name \in StorageNames :
        created_time(name) /\ UNCHANGED <<urlparse, fileVars>>
Delete ==
    \E name \in StorageNames :
        delete(name) /\ UNCHANGED <<urlparse, fileVars>>
Exists ==
    \E name \in StorageNames :
        exists(name) /\ UNCHANGED <<urlparse, fileVars>>
Size ==
    \E name \in StorageNames :
        size(name) /\ UNCHANGED <<urlparse, fileVars>>
ModifiedTime ==
    \E name \in StorageNames :
        modified_time(name) /\ UNCHANGED <<urlparse, fileVars>>
Listdir ==
    \E name \in StorageNames :
        listdir(name) /\ UNCHANGED <<urlparse, fileVars>>
Url ==
    \E name \in StorageNames :
        url(name) /\ UNCHANGED <<urlparse, fileVars>>

\* The interpreter is Python 2 or Python 3; a direct call of safe_join is
\* pending with any base and path; the bucket is empty.
Init ==
    /\ urlparse \in Interpreters
    /\ base \in Roots
    /\ path \in NamesUpTo(MaxJoinSegs)
    /\ joined = NotCalled
    /\ store = {}
    /\ rec = NoCall
    /\ NoFile

Next ==
    \/ SafeJoin
    \/ Save
    \/ Open
    \/ CreatedTime
    \/ Delete
    \/ Exists
    \/ Size
    \/ ModifiedTime
    \/ Listdir
    \/ Url

Spec == Init /\ [][Next]_vars

\* ------------------------------------------------------------------ claims

\* The normalized root of a base as the specification words it: "/", the
\* base without its leading and trailing slashes, "/"; "/" alone when
\* nothing is left of the base.
NormalizedRoot(root) ==
    LET stripped == rstrip(lstrip(root))
    IN  IF stripped = <<>> THEN SLASH ELSE SLASH \o stripped \o SLASH

\* C1: safe_join returns a string that starts with the normalized root or
\* raises; every key or prefix a storage method hands to the bucket starts
\* with the normalized root of bucket_subdir, and a method whose
\* resolution raised made no call on the bucket.
C1_PathContainment ==
    /\ joined # NotCalled =>
           joined.raised \/ startswith(joined.value, NormalizedRoot(base))
    /\ \A i \in 1..Len(rec.calls) :
           startswith(rec.calls[i].key, NormalizedRoot(bucket_subdir))
    /\ (rec.op # "none" /\ joined.raised) =>
           (rec.calls = <<>> /\ rec.raised = "SuspiciousFileOperation")

\* A storage method was refused by safe_join with objects in the bucket.
C1_Witness ==
    /\ rec.op = "_save"
    /\ joined.raised
    /\ store # {}

\* Where the segments of a name lead from a root: up counts the levels
\* climbed above the root, down holds the segments descended since.
RECURSIVE walk(_, _, _)
walk(segments, up, down) ==
    IF segments = <<>> THEN [ up |-> up, down |-> down ]
    ELSE LET seg == Head(segments) IN
         IF seg \in { <<>>, <<".">> } THEN walk(Tail(segments), up, down)
         ELSE IF seg = <<".", ".">>
         THEN IF down = <<>> THEN walk(Tail(segments), up + 1, down)
              ELSE walk(Tail(segments), up, SubSeq(down, 1, Len(down) - 1))
         ELSE walk(Tail(segments), up, Append(down, seg))

\* The ".." segments of the name climb above the root and the name ends
\* outside it: above "/" itself, or in a place that is not under the root.
Escapes(root, name) ==
    LET rootsegs == filter_nonempty(split(rstrip(lstrip(root))))
        w == walk(split(name), 0, <<>>)
        place == SubSeq(rootsegs, 1, Len(rootsegs) - w.up) \o w.down
    IN  /\ w.up > 0
        /\ \/ w.up > Len(rootsegs)
           \/ ~startswith(place, rootsegs)

\* C2: safe_join raises for every root, the empty root included, and
\* every name whose ".." segments climb above the root.
C2_TraversalRejected ==
    (joined # NotCalled /\ Escapes(base, path)) => joined.raised

\* C7: exists, size, modified_time and created_time of a name whose object
\* is missing return False or None instead of raising.
C7_MissingIsAbsent ==
    ( /\ rec.op \in {"exists", "size", "modified_time", "created_time"}
      /\ ~joined.raised
      /\ ~rec.found )
    => /\ rec.raised = ""
       /\ rec.value = IF rec.op = "exists" THEN "False" ELSE "None"

\* C8: delete of a name that resolves raises nothing and leaves no object
\* under the key; when the key was absent the bucket is unchanged; a
\* second delete of the same name succeeds too, and exists is then False.
C8_DeleteIdempotent ==
    /\ [][ (rec'.op = "delete" /\ ~joined'.raised) =>
              /\ rec'.raised = ""
              /\ joined'.value \notin store'
              /\ (~rec'.found => store' = store) ]_vars
    /\ []( (rec.after_delete /\ ~joined.raised) =>
              /\ rec.op = "delete" => (rec.raised = "" /\ ~rec.found)
              /\ rec.op = "exists" => rec.value = "False" )

\* delete was called twice in a row with the same name.
C8_Witness ==
    /\ rec.op = "delete"
    /\ rec.after_delete
    /\ ~joined.raised
    /\ rec.raised = ""
    /\ store # {}

\* C3 as stated, for a file made by the constructor: in one open/close
\* cycle at most one upload call is made, and a closed file had exactly
\* one iff a write call was made on it.
C3_OneUploadCallPerCycle ==
    hist.made_by = "GCloudFile" =>
        /\ hist.upload_calls <= 1
        /\ fstate = "closed" => (hist.upload_calls = 1 <=> hist.writes >= 1)

\* C3 as amended: in one open/close cycle at most one upload succeeds, and
\* a closed file had exactly one successful upload iff a write call was
\* made on it during the cycle.
C3_OneUploadPerCycle ==
    /\ hist.uploads <= 1
    /\ fstate = "closed" => (hist.uploads = 1 <=> hist.writes >= 1)

\* A file was written to twice and closed with its one upload.
C3_Witness ==
    /\ fstate = "closed"
    /\ hist.caller_writes = 2
    /\ hist.uploads = 1

\* C4, for a blob that holds bytes: after _open the file is clean with its
\* cursor at offset zero, and closing it without a write by the caller
\* makes no upload call.
C4_OpenForReadIsClean ==
    /\ (last.op = "_open" /\ fstate = "open" /\ buf # <<>>) =>
           (~dirty /\ pos = 0)
    /\ (hist.made_by = "_open" /\ hist.caller_writes = 0 /\ buf # <<>>) =>
           hist.upload_calls = 0

C6_FailedUploadKeepsBuffer ==
    /\ []( (last.op = "close" /\ last.raised = "UploadError") =>
              (fstate = "open" /\ dirty) )
    /\ [][ (last'.op = "close" /\ last'.raised = "UploadError") =>
              /\ buf' = buf
              /\ hist'.upload_calls = hist.upload_calls + 1 ]_vars
    /\ [][ (last.raised = "UploadError" /\ last'.op = "close") =>
              /\ hist'.upload_calls = hist.upload_calls + 1
              /\ last'.raised = "" =>
                     (uploaded' = buf /\ remote' = buf /\ fstate' = "closed") ]_vars

\* A close failed to upload and the close after it uploaded.
C6_Witness ==
    /\ fstate = "closed"
    /\ hist.upload_calls = 2
    /\ hist.uploads = 1
    /\ hist.caller_writes >= 1
    /\ uploaded # <<>>
    /\ last.op = "close"

\* C9 as stated: a write call with no bytes, then close: no upload call.
C9_EmptyWriteNoUpload ==
    ( /\ fstate = "closed"
      /\ hist.caller_writes >= 1
      /\ hist.made_by = "GCloudFile"
      /\ hist.written = <<>> )
    => hist.upload_calls = 0

\* C9 as amended: a file closed with no write call made no upload call; a
\* file closed after write calls with no bytes was uploaded once.
C9_NoWriteNoUpload ==
    /\ (fstate = "closed" /\ hist.writes = 0) => hist.upload_calls = 0
    /\ ( /\ fstate = "closed"
         /\ hist.caller_writes >= 1
         /\ hist.written = <<>> )
       => hist.uploads = 1

\* A file was closed after a write call with no bytes.
C9_Witness ==
    /\ fstate = "closed"
    /\ hist.caller_writes = 1
    /\ hist.made_by = "GCloudFile"
    /\ hist.written = <<>>
    /\ hist.uploads = 1

\* The directory a resolved path names: the path with one trailing slash.
directory_of(resolved) ==
    IF resolved[Len(resolved)] = "/" THEN resolved ELSE resolved \o SLASH

\* The names of the objects directly in a directory.
objects_in(dir) ==
    { SubSeq(k, Len(dir) + 1, Len(k)) :
      k \in { b \in store : /\ startswith(b, dir)
                            /\ ~has_slash(SubSeq(b, Len(dir) + 1, Len(b))) } }

\* The names of the immediate subdirectories of a directory.
subdirectories_in(dir) ==
    { split(SubSeq(k, Len(dir) + 1, Len(k)))[1] :
      k \in { b \in store : /\ startswith(b, dir)
                            /\ has_slash(SubSeq(b, Len(dir) + 1, Len(b))) } }

\* C10: listdir of a directory path (a path under whose directory the
\* bucket holds an object) returns the sorted names of its immediate
\* subdirectories and the sorted names of the objects directly in it,
\* relative to it.
C10_ListdirRelative ==
    ( /\ rec.op = "listdir"
      /\ ~joined.raised
      /\ \E k \in store : /\ startswith(k, directory_of(joined.value))
                          /\ k # directory_of(joined.value) )
    => rec.value = << sorted(subdirectories_in(directory_of(joined.value))),
                      sorted(objects_in(directory_of(joined.value))) >>

====
